---- MODULE Spec2Model ----
(***************************************************************************)
(* A model of the search-algorithm hierarchy of gpolnel:                   *)
(*   RandomSearch      (src/random_search.py)                              *)
(*   PopulationBased   (src/population_based.py)                           *)
(*   GeneticAlgorithm  (src/genetic_algorithm.py)                          *)
(*                                                                         *)
(* Representations are small integers (0 is the falsy one, as in Python).  *)
(* The process-wide random generators are one state, rng, that a           *)
(* constructor reseeds and every draw of the initializer advances.         *)
(***************************************************************************)
EXTENDS Integers, Sequences, FiniteSets, TLC

\* ---------------------------------------------------------------- bounds
MaxRepr == 2        \* representations are 0..MaxRepr
Period == 3         \* length of the generators' cycle
MaxPop == 2         \* pop_size is 0..MaxPop

Reprs == 0..MaxRepr
Seeds == 0..(Period - 1)
Instances == {"a", "b"}
\* the history of one call keeps at most this many draws; a loop that
\* terminates draws at most Period samples
MaxDraws == Period + 1
PopSizes == 0..MaxPop
MaxStart == 2        \* a start_at of a population-based instance holds 0..MaxStart items

VARIABLES
    gen,        \* the initializer's output as a function of the generators' state
    rng,        \* state of the process-wide generators (random, torch)
    rs,         \* the RandomSearch instances
    pi,         \* the problem instance of the population-based algorithm
    ga,         \* the GeneticAlgorithm instance: its configuration, or None
    pop,        \* ga.pop
    best_sol,   \* ga.best_sol
    call        \* what the last operation on ga did

vars == <<gen, rng, rs, pi, ga, pop, best_sol, call>>
gaVars == <<pi, ga, pop, best_sol, call>>

\* ---------------------------------------------------------------- values
None == [none |-> TRUE]
Some(x) == [v |-> x]

\* Python truthiness of a start_at of RandomSearch: None and 0 are falsy
Truthy(x) == x # None /\ x.v # 0

\* what the last operation on the population-based instance did.  Two fields
\* outlive the operation: initialized, an _initialize call has returned;
\* seeded, whether the _initialize call that built the population had no
\* start_at ("no"), one of at most pop_size representations ("fits") or a
\* longer one ("over")
Fresh ==
    [op |-> "none", outcome |-> "none", start_at |-> None, requested |-> <<>>,
     returned |-> <<>>, evals |-> 0, initialized |-> FALSE, seeded |-> "no"]

\* ---------------------------------------------------------------- problem instance
\* feasibility and fitness of a representation, as pi.evaluate_* compute them
Valid(r) == r % 3 # 1
Fit(r) == IF r >= 1 THEN r - 1 ELSE 1 - r

Solution(r) == [repr_ |-> r, evaluated |-> FALSE, fit |-> 0, valid |-> FALSE]

evaluate_sol(sol) ==
    [sol EXCEPT !.evaluated = TRUE, !.fit = Fit(sol.repr_), !.valid = Valid(sol.repr_)]

\* ---------------------------------------------------------------- generators
\* random.seed(seed); torch.manual_seed(seed)
SeedGenerators(seed) == seed % Period

\* the initializer: n_sols representations, drawn from the generators' state g on
initializer(g, n) == [k \in 1..n |-> gen[(g + k - 1) % Period]]
Advance(g, n) == (g + n) % Period

\* ---------------------------------------------------------------- RandomSearch
NoCallRunning == \A j \in Instances : rs[j].pc # "loop"

Unbuilt ==
    [pc |-> "none", seed |-> 0, best_sol |-> None, start_at |-> None,
     from |-> 0, drawn |-> <<>>, evals |-> <<>>, alone |-> TRUE]

Record(h, r) == IF Len(h) < MaxDraws THEN Append(h, r) ELSE h

\* another instance used the generators: an instance that is built and has
\* not finished its run no longer runs alone
Disturb(i) ==
    [j \in Instances |->
        IF j # i /\ rs[j].pc = "ready" THEN [rs[j] EXCEPT !.alone = FALSE] ELSE rs[j]]

\* RandomSearch._get_random_sol: the sample, wrapped and evaluated
RS_get_random_sol_mutNoEval == Solution(initializer(rng, 1)[1])

RS_get_random_sol == evaluate_sol(Solution(initializer(rng, 1)[1]))

\* RandomSearch.__init__
RS_init_mutNoSeed(i, seed) ==
    /\ rs[i].pc = "none"
    /\ NoCallRunning
    /\ rng' = rng
    /\ rs' = [Disturb(i) EXCEPT ![i] = [Unbuilt EXCEPT !.pc = "ready", !.seed = seed]]

RS_init(i, seed) ==
    /\ rs[i].pc = "none"
    /\ NoCallRunning
    /\ rng' = SeedGenerators(seed)
    /\ rs' = [Disturb(i) EXCEPT ![i] = [Unbuilt EXCEPT !.pc = "ready", !.seed = seed]]

\* "self.best_sol = self._get_random_sol()" followed by the test of the loop,
\* "while not self.best_sol.valid"; inst is the instance as the call found it
RS_draw_mutNoRetry(i, inst) ==
    LET sol == RS_get_random_sol IN
    /\ rng' = Advance(rng, 1)
    /\ rs' = [Disturb(i) EXCEPT ![i] =
                [inst EXCEPT !.best_sol = sol,
                             !.drawn = Record(@, sol.repr_),
                             !.evals = Record(@, sol.repr_),
                             !.pc = "done"]]

RS_draw(i, inst) ==
    LET sol == RS_get_random_sol IN
    /\ rng' = Advance(rng, 1)
    /\ rs' = [Disturb(i) EXCEPT ![i] =
                [inst EXCEPT !.best_sol = sol,
                             !.drawn = Record(@, sol.repr_),
                             !.evals = Record(@, sol.repr_),
                             !.pc = IF sol.valid THEN "done" ELSE "loop"]]

\* RandomSearch._initialize, up to its return or to the first test of the loop
RS_initialize(i, start_at) ==
    /\ rs[i].pc = "ready"
    /\ NoCallRunning
    /\ IF Truthy(start_at)
       THEN /\ rs' = [rs EXCEPT ![i] =
                        [@ EXCEPT !.start_at = start_at, !.from = rng,
                                  !.best_sol = evaluate_sol(Solution(start_at.v)),
                                  !.evals = <<start_at.v>>,
                                  !.pc = "done"]]
            /\ rng' = rng
       ELSE RS_draw(i, [rs[i] EXCEPT !.start_at = start_at, !.from = rng])

\* the body of "while not self.best_sol.valid"
RS_retry(i) ==
    /\ rs[i].pc = "loop"
    /\ RS_draw(i, rs[i])

StartAts == {None} \cup {Some(r) : r \in Reprs}

InitRS ==
    /\ gen \in [0..(Period - 1) -> Reprs]
    /\ rng = 0
    /\ rs = [i \in Instances |-> Unbuilt]
    /\ pi = [min_ |-> TRUE, tensor |-> FALSE]
    /\ ga = None
    /\ pop = None
    /\ best_sol = None
    /\ call = Fresh

NextRS ==
    \/ \E i \in Instances, seed \in Seeds : RS_init(i, seed) /\ UNCHANGED <<gen, gaVars>>
    \/ \E i \in Instances, s \in StartAts : RS_initialize(i, s) /\ UNCHANGED <<gen, gaVars>>
    \/ \E i \in Instances : RS_retry(i) /\ UNCHANGED <<gen, gaVars>>

SpecRS == InitRS /\ [][NextRS]_vars

\* a running loop keeps running
SpecRSFair == SpecRS /\ \A i \in Instances : WF_vars(RS_retry(i) /\ UNCHANGED <<gen, gaVars>>)

\* ---------------------------------------------------------------- Population
\* torch.stack(pop_repr): one tensor whose rows are the list's items, in order
stack(pop_repr) == [stacked |-> TRUE, rows |-> pop_repr.rows]
AsList(items) == [stacked |-> FALSE, rows |-> items]

\* Population(pop_repr) / PopulationTree(pop_repr): not yet evaluated
Population(kind, pop_repr) ==
    [kind |-> kind, repr_ |-> pop_repr.rows, stacked |-> pop_repr.stacked,
     evaluated |-> FALSE, fit |-> <<>>, valid |-> <<>>]

\* pi.evaluate_pop: fitness and validity of every individual, in order
evaluate_pop(p) ==
    [p EXCEPT !.evaluated = TRUE,
              !.fit = [k \in 1..Len(p.repr_) |-> Fit(p.repr_[k])],
              !.valid = [k \in 1..Len(p.repr_) |-> Valid(p.repr_[k])]]

Individual(p, k) ==
    [repr_ |-> p.repr_[k], evaluated |-> TRUE, fit |-> p.fit[k], valid |-> p.valid[k]]

\* Population.get_best_pop(min_): the individuals of minimum (maximum) fitness
get_best_pop(p, min_) ==
    {Individual(p, k) : k \in
        {k \in 1..Len(p.repr_) :
            \A m \in 1..Len(p.repr_) :
                IF min_ THEN p.fit[k] <= p.fit[m] ELSE p.fit[k] >= p.fit[m]}}

\* ---------------------------------------------------------------- PopulationBased
\* PopulationBased.__init__ (with RandomSearch.__init__ and SearchAlgorithm.__init__)
PB_init(pop_size, seed) ==
    /\ ga = None
    /\ ga' = [cls |-> "PopulationBased", pop_size |-> pop_size, seed |-> seed]
    /\ rng' = SeedGenerators(seed)
    /\ pop' = None
    /\ best_sol' = None
    /\ call' = [Fresh EXCEPT !.op = "new", !.outcome = "ok"]

\* GeneticAlgorithm.__init__
GA_init(p_m, p_c, pop_size, elitism, reproduction, seed) ==
    /\ ga = None
    /\ ga' = [cls |-> "GeneticAlgorithm", pop_size |-> pop_size, seed |-> seed,
              p_m |-> p_m, p_c |-> p_c, elitism |-> elitism,
              reproduction |-> reproduction]
    /\ rng' = SeedGenerators(seed)
    /\ pop' = None
    /\ best_sol' = None
    /\ call' = [Fresh EXCEPT !.op = "new", !.outcome = "ok"]

\* PopulationBased._set_best_sol: the values best_sol may take for population p
PB_set_best_sol_mutFlipped(p) == get_best_pop(p, ~pi.min_)

PB_set_best_sol(p) == get_best_pop(p, pi.min_)

\* _set_pop for a population of the given kind; raises: pi.evaluate_pop raises
set_pop_mutEvalTwice(kind, pop_repr, raises, c) ==
    /\ pop' = IF raises THEN Population(kind, pop_repr)
              ELSE evaluate_pop(evaluate_pop(Population(kind, pop_repr)))
    /\ IF raises THEN best_sol' = best_sol ELSE best_sol' \in PB_set_best_sol(pop')
    /\ call' = [c EXCEPT !.evals = @ + 2,
                         !.outcome = IF raises THEN "eval_error" ELSE "ok",
                         !.initialized = @ \/ (c.op = "init" /\ ~raises)]

set_pop_mutStaleBest(kind, pop_repr, raises, c) ==
    /\ pop' = IF raises THEN Population(kind, pop_repr)
              ELSE evaluate_pop(Population(kind, pop_repr))
    /\ IF raises \/ best_sol # None
       THEN best_sol' = best_sol ELSE best_sol' \in PB_set_best_sol(pop')
    /\ call' = [c EXCEPT !.evals = @ + 1,
                         !.outcome = IF raises THEN "eval_error" ELSE "ok",
                         !.initialized = @ \/ (c.op = "init" /\ ~raises)]

set_pop(kind, pop_repr, raises, c) ==
    /\ pop' = IF raises THEN Population(kind, pop_repr)
              ELSE evaluate_pop(Population(kind, pop_repr))
    /\ IF raises THEN best_sol' = best_sol ELSE best_sol' \in PB_set_best_sol(pop')
    /\ call' = [c EXCEPT !.evals = @ + 1,
                         !.outcome = IF raises THEN "eval_error" ELSE "ok",
                         !.initialized = @ \/ (c.op = "init" /\ ~raises)]

\* PopulationBased._set_pop
PB_set_pop(pop_repr, raises, c) == set_pop("Population", pop_repr, raises, c)

\* GeneticAlgorithm._set_pop
GA_set_pop(pop_repr, raises, c) == set_pop("PopulationTree", pop_repr, raises, c)

\* self._set_pop, by the class of the instance
self_set_pop(pop_repr, raises, c) ==
    IF ga.cls = "GeneticAlgorithm"
    THEN GA_set_pop(pop_repr, raises, c)
    ELSE PB_set_pop(pop_repr, raises, c)

\* _initialize: the number of representations asked of the initializer
Requested_mutNoReduce(start_at) == ga.pop_size

Requested(start_at) ==
    IF start_at # None THEN ga.pop_size - Len(start_at.v) ELSE ga.pop_size

\* _initialize: pop_repr after the two extend calls
Combined_mutFreshFirst(start_at, fresh) ==
    IF start_at # None THEN fresh \o start_at.v ELSE fresh

Combined(start_at, fresh) ==
    IF start_at # None THEN start_at.v \o fresh ELSE fresh

\* PopulationBased._initialize.  init_raises: the initializer raises (it may
\* when asked for a negative count); eval_raises: pi.evaluate_pop raises
\* It is called on an instance that holds no population yet.
PB_initialize(start_at, init_raises, eval_raises) ==
    LET n == Requested(start_at)
        c == [call EXCEPT !.op = "init", !.start_at = start_at,
                          !.requested = <<n>>, !.returned = <<>>, !.evals = 0]
        fresh == initializer(rng, n)
        pop_repr == Combined(start_at, fresh)
        c2 == [c EXCEPT !.returned = fresh]
    IN
    /\ ga # None
    /\ pop = None
    /\ init_raises => n < 0
    /\ UNCHANGED ga
    /\ IF init_raises
       THEN /\ call' = [c EXCEPT !.outcome = "error"]
            /\ UNCHANGED <<rng, pop, best_sol>>
       ELSE /\ rng' = IF n > 0 THEN Advance(rng, n) ELSE rng
            /\ IF pop_repr = <<>>
               THEN \* pop_repr[0]: IndexError
                    /\ call' = [c2 EXCEPT !.outcome = "error"]
                    /\ UNCHANGED <<pop, best_sol>>
               ELSE self_set_pop(IF pi.tensor THEN stack(AsList(pop_repr))
                                 ELSE AsList(pop_repr),
                                 eval_raises, [c2 EXCEPT !.seeded = IF start_at = None THEN "no"
                                                    ELSE IF n >= 0 THEN "fits"
                                                    ELSE "over"])

\* One generation of GeneticAlgorithm: offspring bred by selection, crossover,
\* mutation or reproduction (any representations), the elite's representation
\* in one slot when elitism is set, and the population replaced by _set_pop
GA_step(offspring, eval_raises) ==
    LET slots == IF ga.elitism THEN ga.pop_size - 1 ELSE ga.pop_size
        elite == IF ga.elitism THEN <<best_sol.repr_>> ELSE <<>>
        pop_repr == offspring \o elite
        c == [call EXCEPT !.op = "step", !.start_at = None, !.requested = <<>>,
                          !.returned = <<>>, !.evals = 0]
    IN
    /\ ga # None
    /\ ga.cls = "GeneticAlgorithm"
    /\ pop # None
    /\ pop.evaluated
    /\ Len(offspring) = (IF slots > 0 THEN slots ELSE 0)
    /\ pop_repr # <<>>
    /\ UNCHANGED <<ga, rng>>
    /\ GA_set_pop(IF pop.stacked THEN stack(AsList(pop_repr)) ELSE AsList(pop_repr),
                  eval_raises, c)

SeedLists == UNION {[1..n -> Reprs] : n \in 0..MaxStart}
PopStartAts == {None} \cup {Some(l) : l \in SeedLists}
\* p_m, p_c (in tenths), elitism, reproduction: the defaults, and others
Configs == {<<2, 8, TRUE, FALSE>>, <<12, 8, FALSE, FALSE>>, <<2, -1, TRUE, TRUE>>}
\* the seeds given to the population-based instance
PopSeeds == {0, 1}
Broods == UNION {[1..n -> Reprs] : n \in 0..MaxPop}

InitGA ==
    /\ gen = [p \in 0..(Period - 1) |-> p % (MaxRepr + 1)]
    /\ rng = 0
    /\ rs = [i \in Instances |-> Unbuilt]
    /\ pi \in [min_ : BOOLEAN, tensor : BOOLEAN]
    /\ ga = None
    /\ pop = None
    /\ best_sol = None
    /\ call = Fresh

NextGA ==
    \/ \E n \in PopSizes, seed \in PopSeeds :
          PB_init(n, seed) /\ UNCHANGED <<gen, rs, pi>>
    \/ \E cfg \in Configs, n \in PopSizes, seed \in PopSeeds :
          GA_init(cfg[1], cfg[2], n, cfg[3], cfg[4], seed) /\ UNCHANGED <<gen, rs, pi>>
    \/ \E s \in PopStartAts, ir, er \in BOOLEAN :
          PB_initialize(s, ir, er) /\ UNCHANGED <<gen, rs, pi>>
    \/ \E o \in Broods, er \in BOOLEAN :
          GA_step(o, er) /\ UNCHANGED <<gen, rs, pi>>

SpecGA == InitGA /\ [][NextGA]_vars

\* ================================================================ population-based: claims
Individuals(p) == {Individual(p, k) : k \in 1..Len(p.repr_)}
InitDone == call.op = "init" /\ call.outcome = "ok"
AsGood(f, g) == IF pi.min_ THEN f <= g ELSE f >= g

\* C2: whenever pop is non-null, and the start_at that seeded it (if any) held
\* at most pop_size representations, the population holds exactly pop_size
\* individuals: after _initialize and after every later replacement.
C2_PopulationSize ==
    (pop # None /\ call.seeded # "over") => Len(pop.repr_) = ga.pop_size

C2_Witness ==
    /\ pop # None
    /\ call.seeded = "fits"
    /\ call.op = "step"
    /\ ga.elitism
    /\ Len(pop.repr_) = MaxPop

\* C4: with elitism, a generation step never leaves best_sol with a worse
\* fitness than it had: not greater when the problem minimizes, not smaller
\* when it maximizes.
C4_ElitismMonotone ==
    [][(ga # None /\ call'.op = "step" /\ ga.elitism)
          => AsGood(best_sol'.fit, best_sol.fit)]_vars

C4_Witness ==
    /\ call.op = "step" /\ call.outcome = "ok"
    /\ ga.elitism
    /\ ga.pop_size = MaxPop
    /\ \E k \in 1..Len(pop.repr_) : pop.fit[k] # best_sol.fit

\* C5: a configuration error (p_m or p_c outside [0,1], a non-positive
\* pop_size, a start_at longer than pop_size) ends construction or
\* initialization in an error, before the initializer is asked for anything
\* and before a population is built.
ValidConfig(g) ==
    /\ g.pop_size > 0
    /\ g.cls = "GeneticAlgorithm" =>
          (0 <= g.p_m /\ g.p_m <= 10 /\ 0 <= g.p_c /\ g.p_c <= 10)

C5_ConfigErrorsReported ==
    /\ ga # None => ValidConfig(ga)
    /\ (call.op = "init" /\ call.start_at # None
            /\ Len(call.start_at.v) > ga.pop_size)
          => (call.outcome = "error" /\ call.requested = <<>> /\ pop = None)

\* C6: after _initialize returns, the population was evaluated by exactly one
\* evaluate_pop call, and best_sol is an individual of it whose fitness is the
\* minimum over the population when the problem minimizes, the maximum
\* otherwise.
C6_BestOfEvaluatedPopulation ==
    InitDone =>
        /\ call.evals = 1
        /\ pop.evaluated
        /\ pop.fit = [k \in 1..Len(pop.repr_) |-> Fit(pop.repr_[k])]
        /\ best_sol \in Individuals(pop)
        /\ \A k \in 1..Len(pop.repr_) : AsGood(best_sol.fit, pop.fit[k])

C6_Witness ==
    /\ InitDone
    /\ Len(pop.repr_) = MaxPop
    /\ \E k \in 1..Len(pop.repr_) : pop.fit[k] # best_sol.fit
    /\ ~pi.min_

\* C7: for a start_at of k representations, 0 < k <= pop_size, _initialize
\* asks the initializer once, for pop_size - k representations, and the
\* population holds the k supplied ones in their order, followed by the
\* initializer's in the order returned.
C7_SeededOrder ==
    (InitDone /\ call.start_at # None /\ Len(call.start_at.v) > 0
        /\ Len(call.start_at.v) <= ga.pop_size)
    => LET k == Len(call.start_at.v) IN
       /\ call.requested = <<ga.pop_size - k>>
       /\ Len(call.returned) = ga.pop_size - k
       /\ pop.repr_ = call.start_at.v \o call.returned
       /\ \A j \in 1..k : pop.repr_[j] = call.start_at.v[j]

C7_Witness ==
    /\ InitDone
    /\ call.start_at # None
    /\ Len(call.start_at.v) = 1
    /\ Len(call.returned) >= 1
    /\ call.returned[1] # call.start_at.v[1]

\* C10, as stated: pop is null exactly when no _initialize call has returned,
\* and a non-null pop is fully evaluated with best_sol one of its
\* individuals, an evaluate_pop that raised having changed neither.
C10_PopAndBestConsistent ==
    /\ pop = None <=> ~call.initialized
    /\ pop # None => (pop.evaluated /\ best_sol \in Individuals(pop))

\* C10, amended: pop is non-null once an _initialize call has returned, and
\* null before unless pi.evaluate_pop raised inside _initialize; a pop whose
\* evaluation completed is fully evaluated and best_sol is one of its
\* individuals; when pi.evaluate_pop raises inside _set_pop, best_sol is left
\* as it was, and pop is already the new, unevaluated population.
C10_ConsistentUnlessEvaluationRaised ==
    /\ [](/\ call.initialized => pop # None
          /\ (pop # None /\ ~call.initialized) =>
                (call.op = "init" /\ call.outcome = "eval_error" /\ best_sol = None)
          /\ (pop # None /\ pop.evaluated) =>
                /\ Len(pop.fit) = Len(pop.repr_)
                /\ best_sol \in Individuals(pop)
          /\ (pop # None /\ ~pop.evaluated) =>
                /\ call.outcome = "eval_error"
                /\ pop.fit = <<>>)
    /\ [][(call'.outcome = "eval_error" /\ call' # call)
              => (best_sol' = best_sol /\ pop' # None /\ ~pop'.evaluated)]_vars

C10_Witness ==
    /\ call.op = "step" /\ call.outcome = "eval_error"
    /\ pop # None /\ ~pop.evaluated
    /\ best_sol # None
    /\ \A k \in 1..Len(pop.repr_) : pop.repr_[k] # best_sol.repr_

\* ================================================================ RandomSearch: claims
Returned(i) == rs[i].pc = "done"
Sampled(i) == Returned(i) /\ ~Truthy(rs[i].start_at)
HasFeasible == \E p \in 0..(Period - 1) : Valid(gen[p])

\* C1, as stated: whenever _initialize has returned, with or without a
\* start_at, best_sol.valid is true.
C1_EveryReturnFeasible ==
    \A i \in Instances : Returned(i) => rs[i].best_sol.valid

\* C1, amended: whenever _initialize has returned from a call whose start_at
\* was absent or falsy, or was itself feasible, best_sol is evaluated and
\* valid; an infeasible best_sol is held only while the retry loop runs.
C1_ReturnFeasibleUnlessSeededInfeasible ==
    \A i \in Instances :
        /\ (Returned(i) /\ (Truthy(rs[i].start_at) => Valid(rs[i].start_at.v)))
              => rs[i].best_sol.evaluated /\ rs[i].best_sol.valid
        /\ (rs[i].best_sol # None /\ ~rs[i].best_sol.valid /\ ~Truthy(rs[i].start_at))
              => rs[i].pc = "loop"

C1_Witness ==
    \E i \in Instances :
        /\ Sampled(i)
        /\ Len(rs[i].drawn) >= 2
        /\ ~Valid(rs[i].drawn[1])
        /\ rs[i].best_sol.valid

\* C3, as stated: two instances built with the same seed (and given the same
\* start_at) have sampled the same representations and hold the same best_sol
\* once both have run, however their operations were interleaved.
C3_SameSeedSameRun ==
    \A i, j \in Instances :
        (Returned(i) /\ Returned(j) /\ rs[i].seed = rs[j].seed
            /\ rs[i].start_at = rs[j].start_at)
        => rs[i].drawn = rs[j].drawn /\ rs[i].best_sol = rs[j].best_sol

\* C3, amended: two instances built with the same seed have sampled the same
\* representations and hold the same best_sol once both have run, provided no
\* other instance was constructed or sampled between each instance's
\* construction and the end of its run.
C3_SameSeedSameRunWhenAlone ==
    \A i, j \in Instances :
        (Returned(i) /\ Returned(j) /\ rs[i].seed = rs[j].seed
            /\ rs[i].start_at = rs[j].start_at
            /\ rs[i].alone /\ rs[j].alone)
        => rs[i].drawn = rs[j].drawn /\ rs[i].best_sol = rs[j].best_sol

C3_Witness ==
    /\ Sampled("a") /\ Sampled("b")
    /\ rs["a"].seed = rs["b"].seed
    /\ rs["a"].alone /\ rs["b"].alone
    /\ Len(rs["a"].drawn) >= 2
    /\ rs["a"].drawn = rs["b"].drawn
    /\ \E p, q \in 0..(Period - 1) : gen[p] # gen[q]

\* C8: after a call of _initialize with a supplied start_at (anything but
\* None, falsy values included), best_sol is that value wrapped and evaluated
\* by one evaluate_sol call, and nothing was drawn from the initializer.
C8_SuppliedStartAtInstalled ==
    \A i \in Instances :
        (rs[i].pc \in {"loop", "done"} /\ rs[i].start_at # None)
        => /\ rs[i].drawn = <<>>
           /\ rs[i].evals = <<rs[i].start_at.v>>
           /\ rs[i].best_sol = evaluate_sol(Solution(rs[i].start_at.v))

\* C9: without a start_at, a call that returns holds the first feasible sample
\* of the initializer's sequence, has evaluated every sample it drew once and
\* drew none after the first feasible one; the loop terminates when the
\* sequence holds a feasible sample, and never otherwise.
C9_FirstFeasible(i) ==
    Sampled(i) =>
        LET d == rs[i].drawn IN
        /\ Len(d) >= 1
        /\ \A k \in 1..Len(d) :
              /\ d[k] = gen[(rs[i].from + k - 1) % Period]
              /\ Valid(d[k]) <=> k = Len(d)
        /\ rs[i].evals = d
        /\ rs[i].best_sol = evaluate_sol(Solution(d[Len(d)]))

C9_RetryLoop ==
    /\ [](\A i \in Instances : C9_FirstFeasible(i))
    /\ \A i \in Instances : (rs[i].pc = "loop" /\ HasFeasible) ~> Returned(i)
    /\ [][\A i \in Instances :
            (rs[i].pc = "loop" /\ ~HasFeasible) => rs'[i].pc = "loop"]_vars

C9_Witness ==
    \E i \in Instances :
        /\ Sampled(i)
        /\ rs[i].start_at = None
        /\ Len(rs[i].drawn) = Period
        /\ rs[i].from # 0

====
